---- MODULE Spec2Model ----
(***************************************************************************)
(* State-machine model of the SGX quote decoder of                         *)
(* provers/sgx/prover/src/sgx_register_utils.rs: little_endian_decode,     *)
(* parse_quote_header, parse_quote_enclave_report,                         *)
(* parse_cerification_chain_bytes, parse_quote_auth_data and parse_quote.  *)
(*                                                                         *)
(* A byte is an integer 0..255, a slice a sequence of bytes (1-based here, *)
(* 0-based in the source: the source's b[lo..hi] is SubSeq(b, lo+1, hi)).  *)
(* A u64 is kept as its little-endian base-16 digits without leading zero  *)
(* digits, so that values up to 2^64 - 1 and the overflow past them are    *)
(* exact.  Every failure of the source is a panic (assert!, a slice index  *)
(* out of range, unwrap of an Err); a panic is a value [ok |-> FALSE]      *)
(* naming its site.                                                        *)
(***************************************************************************)
EXTENDS Integers, Sequences, FiniteSets, TLC

VARIABLES
    pc,                    \* position of the running call
    callee,                \* the function the harness calls
    result,                \* what the call returned, or the panic that ended it
    steps,                 \* the statements that have run, in order
    \* parse_quote
    quote_str,             \* its argument: a string, as character codes
    quote_bytes,           \* the decoded bytes (the slice argument of a direct call)
    header,
    local_enclave_report,
    local_auth_data_size,  \* a u64
    v3_auth_data,
    \* parse_quote_auth_data
    auth_bytes,            \* its argument quote_bytes: &quote_bytes[436..] of the caller
    parsed_data_size,      \* a u64
    data,
    offset,
    cert_type,             \* a u64
    cert_data_size,        \* a u64
    pem_bytes,             \* cert_data, as handed to parse_cerification_chain_bytes
    decoded_cert_data_array,
    \* little_endian_decode
    encoded,               \* its argument
    i,                     \* the loop index
    decoded,               \* the accumulator (a u64)
    ovf                    \* whether a value of the loop has passed the u64 range

quoteVars == <<quote_str, quote_bytes, header, local_enclave_report,
               local_auth_data_size, v3_auth_data>>

authVars == <<auth_bytes, parsed_data_size, data, offset, cert_type, cert_data_size,
              pem_bytes, decoded_cert_data_array>>

leVars == <<encoded, i, decoded, ovf>>

vars == <<pc, callee, result, steps, quoteVars, authVars, leVars>>

----------------------------------------------------------------------------
(* Results and panics *)

\* A value returned: Ok(v) of a Result, or a plain value.
Ok(v) == [ok |-> TRUE, panic |-> FALSE, err |-> "", val |-> v]

\* An Err(e) returned to the caller, which goes on running.
Err(e) == [ok |-> FALSE, panic |-> FALSE, err |-> e, val |-> <<>>]

\* A panic: the thread unwinds and every caller with it.  site names the
\* assert!, the slice or the unwrap that raised it.
Panic(site) == [ok |-> FALSE, panic |-> TRUE, err |-> site, val |-> <<>>]

\* No value yet
Unset == [ok |-> FALSE, panic |-> FALSE, err |-> "unset", val |-> <<>>]

\* r's value handed on to F, or the failure r: a statement that runs only
\* when the statements before it have not failed.  r is evaluated once, as x.
Then(r, F(_)) == CHOOSE y \in {IF x.ok THEN F(x.val) ELSE x : x \in {r}} : TRUE

\* .unwrap(): the panic at site for an Err, the value for an Ok.
Unwrap(r, site) == CHOOSE y \in {IF x.ok THEN x ELSE Panic(site) : x \in {r}} : TRUE

Min(a, b) == IF a <= b THEN a ELSE b

Max(a, b) == IF a >= b THEN a ELSE b

----------------------------------------------------------------------------
(* u64 arithmetic on base-16 digit sequences *)

\* The number of base-16 digits of a u64
U64Digits == 16

\* Digits d without their leading (most significant) zero digits.
BigNorm(d) ==
    LET nz == {k \in 1..Len(d) : d[k] # 0}
    IN  IF nz = {} THEN <<>>
        ELSE SubSeq(d, 1, CHOOSE k \in nz : \A j \in nz : j <= k)

BigDigit(d, k) == IF k <= Len(d) THEN d[k] ELSE 0

RECURSIVE BigAddFrom(_, _, _, _)
BigAddFrom(a, b, k, carry) ==
    IF k > Max(Len(a), Len(b))
    THEN (IF carry = 0 THEN <<>> ELSE <<carry>>)
    ELSE LET s == BigDigit(a, k) + BigDigit(b, k) + carry
         IN  <<s % 16>> \o BigAddFrom(a, b, k + 1, s \div 16)

\* a + b, exact
BigAdd(a, b) == BigNorm(BigAddFrom(a, b, 1, 0))

RECURSIVE BigMulFrom(_, _, _, _)
BigMulFrom(a, m, k, carry) ==
    IF k > Len(a)
    THEN (IF carry = 0 THEN <<>>
          ELSE <<carry % 16>> \o (IF carry \div 16 = 0 THEN <<>> ELSE <<carry \div 16>>))
    ELSE LET s == a[k] * m + carry
         IN  <<s % 16>> \o BigMulFrom(a, m, k + 1, s \div 16)

\* a * m for a small factor m (0..255), exact
BigMul(a, m) == BigNorm(BigMulFrom(a, m, 1, 0))

\* 16u64.pow(e): one digit 1 above e zero digits; it overflows a u64 when e >= 16
Pow16(e) == [k \in 1..(e + 1) |-> IF k = e + 1 THEN 1 ELSE 0]

\* A small natural as a u64
BigOf(n) ==
    BigNorm([k \in 1..7 |-> (n \div (IF k = 1 THEN 1 ELSE
                                     IF k = 2 THEN 16 ELSE
                                     IF k = 3 THEN 256 ELSE
                                     IF k = 4 THEN 4096 ELSE
                                     IF k = 5 THEN 65536 ELSE
                                     IF k = 6 THEN 1048576 ELSE 16777216)) % 16])

FitsU64(d) == Len(d) <= U64Digits

\* Whether the value is small enough to be used as an index of the model
\* (below 16^7); every slice of the model is far shorter.
BigSmall(d) == Len(d) <= 7

RECURSIVE BigToIntFrom(_, _)
BigToIntFrom(d, k) == IF k > Len(d) THEN 0 ELSE d[k] + 16 * BigToIntFrom(d, k + 1)

\* The value of a small u64
BigToInt(d) == BigToIntFrom(d, 1)

\* d > n for a u64 d and a model-sized natural n
BigGt(d, n) == ~BigSmall(d) \/ BigToInt(d) > n

\* The low bits digits of d: the source's `as u16` (4 digits), `as u32` (8 digits)
BigTrunc(d, digits) == BigNorm(SubSeq(d, 1, Min(Len(d), digits)))

----------------------------------------------------------------------------
(* little_endian_decode *)

\* The slice length little_endian_decode accepts
MaxEncodedLen == 8

\* LeStep with the upper digit at the power of the lower one: 16^(2i) for both
LeStep_SamePower(acc, k, byte) ==
    LET digits == byte
        upper_digit == digits \div 16
        lower_digit == digits % 16
        p0 == Pow16(2 * k)
        acc1 == BigMul(p0, lower_digit)
        m1 == BigMul(p0, upper_digit)
        acc2 == BigAdd(acc1, m1)
        sum == BigAdd(acc.decoded, acc2)
    IN  [decoded |-> sum,
         ovf |-> acc.ovf \/ ~FitsU64(p0) \/ ~FitsU64(acc1)
                 \/ ~FitsU64(m1) \/ ~FitsU64(acc2) \/ ~FitsU64(sum)]

\* One iteration of the loop: decoded += lower * 16^(2i) + upper * 16^(2i+1).
\* k is the source's 0-based i.  ovf records a u64 overflow of any
\* intermediate value (a panic in a debug build, a wrap in a release build).
LeStep(acc, k, byte) ==
    LET digits == byte
        upper_digit == digits \div 16
        lower_digit == digits % 16
        p0 == Pow16(2 * k)
        acc1 == BigMul(p0, lower_digit)
        p1 == Pow16(2 * k + 1)
        m1 == BigMul(p1, upper_digit)
        acc2 == BigAdd(acc1, m1)
        sum == BigAdd(acc.decoded, acc2)
    IN  [decoded |-> sum,
         ovf |-> acc.ovf \/ ~FitsU64(p0) \/ ~FitsU64(acc1) \/ ~FitsU64(p1)
                 \/ ~FitsU64(m1) \/ ~FitsU64(acc2) \/ ~FitsU64(sum)]

RECURSIVE LeLoop(_, _, _)
LeLoop(enc, k, acc) ==
    IF k >= Len(enc) THEN acc
    ELSE LeLoop(enc, k + 1, LeStep(acc, k, enc[k + 1]))

\* little_endian_decode(enc): the u64, or the panic of the assert! on the
\* length (or of an overflowing intermediate value).
little_endian_decode(enc) ==
    IF Len(enc) > MaxEncodedLen THEN Panic("assert:encoded.len() <= 8")
    ELSE LET r == LeLoop(enc, 0, [decoded |-> <<>>, ovf |-> FALSE])
         IN  IF r.ovf THEN Panic("overflow:u64") ELSE Ok(r.decoded)

----------------------------------------------------------------------------
(* The call of little_endian_decode, one loop iteration per step *)

\* The longest slice handed to little_endian_decode
MaxLeLen == 9

\* The longest slice drawn over the small byte values
MaxSmallLen == 3

RECURSIVE SeqsOver(_, _)
SeqsOver(S, n) ==
    IF n = 0 THEN {<<>>}
    ELSE LET shorter == SeqsOver(S, n - 1)
         IN  shorter \cup {Append(s, b) : s \in {t \in shorter : Len(t) = n - 1}, b \in S}

LeInputs == SeqsOver({30, 255}, MaxLeLen) \cup SeqsOver({0, 1, 2}, MaxSmallLen)

\* The variables of parse_quote and of parse_quote_auth_data before they run
QuoteUnset ==
    /\ quote_bytes = <<>>
    /\ header = Unset
    /\ local_enclave_report = Unset
    /\ local_auth_data_size = <<>>
    /\ v3_auth_data = Unset

AuthUnset ==
    /\ auth_bytes = <<>>
    /\ parsed_data_size = <<>>
    /\ data = <<>>
    /\ offset = 0
    /\ cert_type = <<>>
    /\ cert_data_size = <<>>
    /\ pem_bytes = Unset
    /\ decoded_cert_data_array = <<>>

LeUnset ==
    /\ encoded = <<>>
    /\ i = 0
    /\ decoded = <<>>
    /\ ovf = FALSE

InitLE ==
    /\ pc = "le_entry"
    /\ callee = "little_endian_decode"
    /\ encoded \in LeInputs
    /\ i = 0
    /\ decoded = <<>>
    /\ ovf = FALSE
    /\ result = Unset
    /\ steps = <<>>
    /\ quote_str = <<>>
    /\ QuoteUnset
    /\ AuthUnset

\* assert!(encoded.len() <= 8); let mut decoded = 0;
LeAssert ==
    /\ pc = "le_entry"
    /\ IF Len(encoded) > MaxEncodedLen
       THEN /\ result' = Panic("assert:encoded.len() <= 8")
            /\ pc' = "done"
       ELSE /\ result' = result
            /\ pc' = "le_loop"
    /\ UNCHANGED <<callee, steps, encoded, i, decoded, ovf, quoteVars, authVars>>

\* One iteration of the for loop.
LeIterate ==
    /\ pc = "le_loop"
    /\ i < Len(encoded)
    /\ LET r == LeStep([decoded |-> decoded, ovf |-> ovf], i, encoded[i + 1])
       IN  /\ decoded' = r.decoded
           /\ ovf' = r.ovf
    /\ i' = i + 1
    /\ UNCHANGED <<pc, callee, result, steps, encoded, quoteVars, authVars>>

\* The loop is over: the function returns decoded.
LeReturn ==
    /\ pc = "le_loop"
    /\ i = Len(encoded)
    /\ result' = IF ovf THEN Panic("overflow:u64") ELSE Ok(decoded)
    /\ pc' = "done"
    /\ UNCHANGED <<callee, steps, encoded, i, decoded, ovf, quoteVars, authVars>>

NextLE == LeAssert \/ LeIterate \/ LeReturn

SpecLE == InitLE /\ [][NextLE]_vars

\* The standard little-endian reading of a slice, sum of b[k] * 256^k, as
\* base-16 digits: byte k holds digits 2k (low nibble) and 2k+1 (high nibble).
LittleEndianValue(b) ==
    BigNorm([k \in 1..(2 * Len(b)) |->
                IF k % 2 = 1 THEN b[(k + 1) \div 2] % 16 ELSE b[k \div 2] \div 16])

\* The same reading as a number, for slices short enough that it is model-sized
RECURSIVE ByteSum(_)
ByteSum(b) == IF b = <<>> THEN 0 ELSE b[1] + 256 * ByteSum(Tail(b))

----------------------------------------------------------------------------
(* Slices *)

\* &b[lo..hi] (0-based, hi exclusive): a panic when the range passes the end
\* of b or starts after its own end, else exactly the hi - lo bytes.
Slice(b, lo, hi) ==
    IF lo > hi \/ hi > Len(b) THEN Panic("slice") ELSE Ok(SubSeq(b, lo + 1, hi))

\* SliceN that shortens the slice to what b holds instead of panicking
SliceN_Clamped(b, lo, n) ==
    IF BigGt(BigAdd(BigOf(lo), n), Len(b))
    THEN Ok(SubSeq(b, Min(lo, Len(b)) + 1, Len(b)))
    ELSE Ok(SubSeq(b, lo + 1, lo + BigToInt(n)))

\* &b[lo..lo + n] for a u64 n read from the input (usize is 64 bits wide: the
\* sum does not wrap).
SliceN(b, lo, n) ==
    IF BigGt(BigAdd(BigOf(lo), n), Len(b)) THEN Panic("slice")
    ELSE Slice(b, lo, lo + BigToInt(n))

\* &b[lo..]
SliceFrom(b, lo) ==
    IF lo > Len(b) THEN Panic("slice") ELSE Ok(SubSeq(b, lo + 1, Len(b)))

\* The first failure among results rs (a sequence), in order; Ok when none.
FirstPanic(rs) ==
    LET bad == {k \in 1..Len(rs) : ~rs[k].ok}
    IN  IF bad = {} THEN Ok(<<>>) ELSE rs[CHOOSE k \in bad : \A j \in bad : k <= j]

----------------------------------------------------------------------------
(* parse_quote_header *)

\* The length the header's assert! compares with
HeaderLen == 48

\* parse_quote_header with the attestation key type sliced at the offsets of
\* the version
parse_quote_header_CopiedRange(b) ==
    IF ~(Len(b) > HeaderLen) THEN Panic("assert:quote_bytes.len() > 48")
    ELSE LET version == Slice(b, 0, 2)
             attestation_key_type == Slice(b, 0, 2)
             tee_type == Slice(b, 4, 8)
             qe_svn == Slice(b, 8, 10)
             pce_svn == Slice(b, 10, 12)
             qe_vendor_id == Slice(b, 12, 28)
             user_data == Slice(b, 28, HeaderLen)
             bad == FirstPanic(<<version, attestation_key_type, tee_type, qe_svn,
                                 pce_svn, qe_vendor_id, user_data>>)
         IN  IF ~bad.ok THEN bad
             ELSE Ok([version |-> version.val,
                      attestationKeyType |-> attestation_key_type.val,
                      teeType |-> tee_type.val,
                      qeSvn |-> qe_svn.val,
                      pceSvn |-> pce_svn.val,
                      qeVendorId |-> qe_vendor_id.val,
                      userData |-> user_data.val])

\* parse_quote_header(b): the assert! on the length, then seven slices.
parse_quote_header(b) ==
    IF ~(Len(b) > HeaderLen) THEN Panic("assert:quote_bytes.len() > 48")
    ELSE LET version == Slice(b, 0, 2)
             attestation_key_type == Slice(b, 2, 4)
             tee_type == Slice(b, 4, 8)
             qe_svn == Slice(b, 8, 10)
             pce_svn == Slice(b, 10, 12)
             qe_vendor_id == Slice(b, 12, 28)
             user_data == Slice(b, 28, HeaderLen)
             bad == FirstPanic(<<version, attestation_key_type, tee_type, qe_svn,
                                 pce_svn, qe_vendor_id, user_data>>)
         IN  IF ~bad.ok THEN bad
             ELSE Ok([version |-> version.val,
                      attestationKeyType |-> attestation_key_type.val,
                      teeType |-> tee_type.val,
                      qeSvn |-> qe_svn.val,
                      pceSvn |-> pce_svn.val,
                      qeVendorId |-> qe_vendor_id.val,
                      userData |-> user_data.val])

----------------------------------------------------------------------------
(* parse_quote_enclave_report *)

\* The length of an enclave report: the end of its last slice
ReportLen == 384

\* `as u8` in the place of `as u16`: the second byte is lost
AsU16_LowByte(d) == BigToInt(BigTrunc(d, 2))

\* A decoded u64 `as u16`, as a number
AsU16(d) == BigToInt(BigTrunc(d, 4))

\* parse_quote_enclave_report(b): twelve slices, with no check of the length
\* of b; isvProdId and isvSvn go through little_endian_decode.
parse_quote_enclave_report(b) ==
    LET cpu_svn == Slice(b, 0, 16)
        misc_select == Slice(b, 16, 20)
        reserved1 == Slice(b, 20, 48)
        attributes == Slice(b, 48, 64)
        mr_enclave == Slice(b, 64, 96)
        reserved2 == Slice(b, 96, 128)
        mr_signer == Slice(b, 128, 160)
        reserved3 == Slice(b, 160, 256)
        isv_prod_id == Slice(b, 256, 258)
        isv_svn == Slice(b, 258, 260)
        reserved4 == Slice(b, 260, 320)
        report_data == Slice(b, 320, ReportLen)
        bad == FirstPanic(<<cpu_svn, misc_select, reserved1, attributes, mr_enclave,
                            reserved2, mr_signer, reserved3, isv_prod_id, isv_svn,
                            reserved4, report_data>>)
    IN  IF ~bad.ok THEN bad
        ELSE Then(little_endian_decode(isv_prod_id.val), LAMBDA prod :
             Then(little_endian_decode(isv_svn.val), LAMBDA svn :
             Ok([cpuSvn |-> cpu_svn.val,
                 miscSelect |-> misc_select.val,
                 reserved1 |-> reserved1.val,
                 attributes |-> attributes.val,
                 mrEnclave |-> mr_enclave.val,
                 reserved2 |-> reserved2.val,
                 mrSigner |-> mr_signer.val,
                 reserved3 |-> reserved3.val,
                 isvProdId |-> AsU16(prod),
                 isvSvn |-> AsU16(svn),
                 reserved4 |-> reserved4.val,
                 reportData |-> report_data.val])))

----------------------------------------------------------------------------
(* pem::parse_many, as parse_cerification_chain_bytes uses it: the framing  *)
(* -----BEGIN tag----- base64 -----END tag-----, every block of the input   *)
(* in order, an Err as soon as one block is malformed.                      *)

\* "-----BEGIN "
BeginMarker == <<45, 45, 45, 45, 45, 66, 69, 71, 73, 78, 32>>

\* "-----END "
EndMarker == <<45, 45, 45, 45, 45, 69, 78, 68, 32>>

\* "-----"
Dashes == <<45, 45, 45, 45, 45>>

\* space, \t, \n, vertical tab, form feed, \r
Whitespace == {32, 9, 10, 11, 12, 13}

\* The 1-based index of the first occurrence of pat in b, 0 when there is none.
Find(b, pat) ==
    LET at == {k \in 1..(Len(b) - Len(pat) + 1) : SubSeq(b, k, k + Len(pat) - 1) = pat}
    IN  IF at = {} THEN 0 ELSE CHOOSE k \in at : \A j \in at : k <= j

\* read_until(b, pat): the bytes before the first pat and the bytes after it.
ReadUntil(b, pat) ==
    LET k == Find(b, pat)
    IN  IF k = 0 THEN [found |-> FALSE, before |-> <<>>, rest |-> <<>>]
        ELSE [found |-> TRUE,
              before |-> SubSeq(b, 1, k - 1),
              rest |-> SubSeq(b, k + Len(pat), Len(b))]

\* b without its leading whitespace
SkipWhitespace(b) ==
    LET solid == {k \in 1..Len(b) : b[k] \notin Whitespace}
    IN  IF solid = {} THEN <<>>
        ELSE SubSeq(b, CHOOSE k \in solid : \A j \in solid : k <= j, Len(b))

\* The data of a payload: what follows the blank line that ends its headers,
\* the whole payload when it has none.
PayloadData(payload) ==
    LET lf == ReadUntil(payload, <<10, 10>>)
        crlf == ReadUntil(payload, <<13, 10, 13, 10>>)
    IN  IF lf.found THEN lf.rest ELSE IF crlf.found THEN crlf.rest ELSE payload

\* The parser of one block: the captures and the input left, or found = FALSE.
ParseBlock(b) ==
    LET none == [found |-> FALSE, begin |-> <<>>, data |-> <<>>, end |-> <<>>,
                 rest |-> <<>>]
        b1 == ReadUntil(b, BeginMarker)
        b2 == ReadUntil(b1.rest, Dashes)
        pl == ReadUntil(SkipWhitespace(b2.rest), EndMarker)
        e1 == ReadUntil(pl.rest, Dashes)
    IN  IF ~b1.found \/ ~b2.found \/ ~pl.found \/ ~e1.found THEN none
        ELSE [found |-> TRUE, begin |-> b2.before, data |-> PayloadData(pl.before),
              end |-> e1.before, rest |-> SkipWhitespace(e1.rest)]

\* The captures of every block of b, in the order of the input.
RECURSIVE ParseBlocks(_)
ParseBlocks(b) ==
    IF b = <<>> THEN <<>>
    ELSE LET c == ParseBlock(b)
         IN  IF ~c.found THEN <<>> ELSE <<c>> \o ParseBlocks(c.rest)

\* The value of a base64 character, -1 for a character outside the alphabet
B64Value(c) ==
    IF c >= 65 /\ c <= 90 THEN c - 65
    ELSE IF c >= 97 /\ c <= 122 THEN c - 71
    ELSE IF c >= 48 /\ c <= 57 THEN c + 4
    ELSE IF c = 43 THEN 62
    ELSE IF c = 47 THEN 63
    ELSE -1

\* '=', the base64 padding
B64Pad == 61

\* The standard base64 decode, padding required: the bytes, or an Err.
Base64Decode(s) ==
    LET n == Len(s)
        pad == IF n >= 2 /\ s[n] = B64Pad /\ s[n - 1] = B64Pad THEN 2
               ELSE IF n >= 1 /\ s[n] = B64Pad THEN 1 ELSE 0
        v == [k \in 1..(n - pad) |-> B64Value(s[k])]
        v6(k) == IF k <= n - pad THEN v[k] ELSE 0
        outLen == 3 * (n \div 4) - pad
        byteAt(j) ==
            LET g == 4 * ((j - 1) \div 3)
                r == (j - 1) % 3
            IN  IF r = 0 THEN v6(g + 1) * 4 + v6(g + 2) \div 16
                ELSE IF r = 1 THEN (v6(g + 2) % 16) * 16 + v6(g + 3) \div 4
                ELSE (v6(g + 3) % 4) * 64 + v6(g + 4)
        spare == IF pad = 2 THEN v6(n - 2) % 16
                 ELSE IF pad = 1 THEN v6(n - 1) % 4 ELSE 0
    IN  IF n % 4 # 0 \/ (\E k \in 1..(n - pad) : v[k] < 0) \/ spare # 0
        THEN Err("base64")
        ELSE Ok([j \in 1..outLen |-> byteAt(j)])

\* One Pem of its captures: the tags present and equal, text throughout, the
\* data base64 once its whitespace is removed.
PemOfCaptures(c) ==
    LET text(s) == \A k \in 1..Len(s) : s[k] < 128
        contents == Base64Decode(SelectSeq(c.data, LAMBDA x : x \notin Whitespace))
    IN  IF ~text(c.begin) \/ c.begin = <<>> THEN Err("pem:MissingBeginTag")
        ELSE IF ~text(c.end) \/ c.end = <<>> THEN Err("pem:MissingEndTag")
        ELSE IF c.begin # c.end THEN Err("pem:MismatchedTags")
        ELSE IF ~text(c.data) \/ ~contents.ok THEN Err("pem:InvalidData")
        ELSE Ok([tag |-> c.begin, contents |-> contents.val])

\* parse_many(b): Ok of the Pems of all blocks of b, or the first Err.
parse_many(b) ==
    LET caps == ParseBlocks(b)
        pems == [k \in 1..Len(caps) |-> PemOfCaptures(caps[k])]
        bad == FirstPanic(pems)
    IN  IF ~bad.ok THEN bad ELSE Ok([k \in 1..Len(pems) |-> pems[k].val])

----------------------------------------------------------------------------
(* parse_cerification_chain_bytes *)

\* The number of certificates of a chain
ChainLen == 3

\* parse_cerification_chain_bytes that asserts at least three blocks and
\* keeps the first three
parse_cerification_chain_bytes_AtLeast(b) ==
    Then(Unwrap(parse_many(b), "unwrap:parse_many"), LAMBDA pems :
    IF Len(pems) < ChainLen THEN Panic("assert_eq:pems.len() == 3")
    ELSE Ok([k \in 1..ChainLen |-> pems[k].contents]))

\* parse_cerification_chain_bytes(b): unwrap of parse_many, the assert_eq! on
\* the count, then the contents of each Pem at its index.
parse_cerification_chain_bytes(b) ==
    Then(Unwrap(parse_many(b), "unwrap:parse_many"), LAMBDA pems :
    IF Len(pems) # ChainLen THEN Panic("assert_eq:pems.len() == 3")
    ELSE Ok([k \in 1..ChainLen |-> pems[k].contents]))

----------------------------------------------------------------------------
(* hex::decode *)

\* The value of a hex digit, -1 for any other character
HexValue(c) ==
    IF c >= 48 /\ c <= 57 THEN c - 48
    ELSE IF c >= 97 /\ c <= 102 THEN c - 87
    ELSE IF c >= 65 /\ c <= 70 THEN c - 55
    ELSE -1

\* hex::decode(s): an Err for an odd length or a character that is no hex
\* digit, else one byte for every two characters.
hex_decode(s) ==
    IF Len(s) % 2 # 0 THEN Err("hex:OddLength")
    ELSE IF \E k \in 1..Len(s) : HexValue(s[k]) < 0 THEN Err("hex:InvalidHexCharacter")
    ELSE Ok([k \in 1..(Len(s) \div 2) |-> 16 * HexValue(s[2 * k - 1]) + HexValue(s[2 * k])])

----------------------------------------------------------------------------
(* parse_quote, one statement per step *)

\* The start of the size field and of the authentication data in a quote
SizeOffset == 432

AuthOffset == 436

\* A failed statement that leaves the call where it was, to be run again
Abort_Retry(r) ==
    /\ result' = r
    /\ pc' = pc

\* A statement panics: the call is over, with nothing returned.
Abort(r) ==
    /\ result' = r
    /\ pc' = "done"

\* let quote_bytes = hex::decode(quote_str).unwrap();
HexDecode ==
    /\ pc = "hex"
    /\ steps' = Append(steps, "hex")
    /\ \E r \in {Unwrap(hex_decode(quote_str), "unwrap:hex::decode")} :
           IF r.ok
           THEN /\ quote_bytes' = r.val
                /\ pc' = "header"
                /\ result' = result
           ELSE /\ quote_bytes' = quote_bytes
                /\ Abort(r)
    /\ UNCHANGED <<callee, quote_str, header, local_enclave_report,
                   local_auth_data_size, v3_auth_data, authVars, leVars>>

\* let header = parse_quote_header(&quote_bytes).unwrap();
ParseHeader ==
    /\ pc = "header"
    /\ steps' = Append(steps, "header")
    /\ \E r \in {parse_quote_header(quote_bytes)} :
           IF r.ok
           THEN /\ header' = r
                /\ pc' = "report"
                /\ result' = result
           ELSE /\ header' = header
                /\ Abort(r)
    /\ UNCHANGED <<callee, quote_str, quote_bytes, local_enclave_report,
                   local_auth_data_size, v3_auth_data, authVars, leVars>>

\* let local_enclave_report = parse_quote_enclave_report(&quote_bytes[48..432]).unwrap();
ParseLocalReport ==
    /\ pc = "report"
    /\ steps' = Append(steps, "report")
    /\ \E r \in {Then(Slice(quote_bytes, HeaderLen, SizeOffset),
                      LAMBDA w : parse_quote_enclave_report(w))} :
           IF r.ok
           THEN /\ local_enclave_report' = r
                /\ pc' = "size"
                /\ result' = result
           ELSE /\ local_enclave_report' = local_enclave_report
                /\ Abort(r)
    /\ UNCHANGED <<callee, quote_str, quote_bytes, header, local_auth_data_size,
                   v3_auth_data, authVars, leVars>>

\* let local_auth_data_size = little_endian_decode(&quote_bytes[432..436]) as usize;
ReadAuthDataSize ==
    /\ pc = "size"
    /\ steps' = Append(steps, "size")
    /\ \E r \in {Then(Slice(quote_bytes, SizeOffset, AuthOffset),
                      LAMBDA w : little_endian_decode(w))} :
           IF r.ok
           THEN /\ local_auth_data_size' = r.val
                /\ pc' = "check"
                /\ result' = result
           ELSE /\ local_auth_data_size' = local_auth_data_size
                /\ Abort(r)
    /\ UNCHANGED <<callee, quote_str, quote_bytes, header, local_enclave_report,
                   v3_auth_data, authVars, leVars>>

\* The comparison as "at least": a size field stating less than the length
\* passes
LengthMatches_AtLeast(bytes, size) == ~BigGt(size, Len(bytes) - AuthOffset)

\* Whether assert_eq!(quote_bytes.len() - 436, local_auth_data_size) passes.
\* The statement before has sliced [432..436): the length is at least 436.
LengthMatches(bytes, size) == BigOf(Len(bytes) - AuthOffset) = size

\* assert_eq!(quote_bytes.len() - 436, local_auth_data_size, "quote length mismatch");
CheckLength ==
    /\ pc = "check"
    /\ steps' = Append(steps, "check")
    /\ IF LengthMatches(quote_bytes, local_auth_data_size)
       THEN /\ pc' = "auth"
            /\ result' = result
       ELSE Abort(Panic("assert_eq:quote length mismatch"))
    /\ UNCHANGED <<callee, quoteVars, authVars, leVars>>

\* parse_quote_auth_data(&quote_bytes[436..]) is entered.
EnterAuthData ==
    /\ pc = "auth"
    /\ steps' = Append(steps, "auth")
    /\ \E r \in {SliceFrom(quote_bytes, AuthOffset)} :
           IF r.ok
           THEN /\ auth_bytes' = r.val
                /\ pc' = "auth_size"
                /\ result' = result
           ELSE /\ auth_bytes' = auth_bytes
                /\ Abort(r)
    /\ UNCHANGED <<callee, quoteVars, parsed_data_size, data, offset, cert_type,
                   cert_data_size, pem_bytes, decoded_cert_data_array, leVars>>

----------------------------------------------------------------------------
(* parse_quote_auth_data, one statement per step *)

\* Offsets of the authentication data: the end of the QE report signature,
\* and the start of the QE authentication data after its two-byte size
QeSizeOffset == 576

QeDataOffset == 578

\* let parsed_data_size = little_endian_decode(&quote_bytes[576..578]);
AuthReadSize ==
    /\ pc = "auth_size"
    /\ steps' = Append(steps, "auth_size")
    /\ \E r \in {Then(Slice(auth_bytes, QeSizeOffset, QeDataOffset),
                      LAMBDA w : little_endian_decode(w))} :
           IF r.ok
           THEN /\ parsed_data_size' = r.val
                /\ pc' = "auth_data"
                /\ result' = result
           ELSE /\ parsed_data_size' = parsed_data_size
                /\ Abort(r)
    /\ UNCHANGED <<callee, quoteVars, auth_bytes, data, offset, cert_type,
                   cert_data_size, pem_bytes, decoded_cert_data_array, leVars>>

\* AuthSliceData with the payload sliced from the size field at 576
AuthSliceData_FromSizeField ==
    /\ pc = "auth_data"
    /\ steps' = Append(steps, "auth_data")
    /\ \E r \in {SliceN(auth_bytes, QeSizeOffset, parsed_data_size)} :
           IF r.ok
           THEN /\ data' = r.val
                /\ offset' = QeDataOffset + BigToInt(parsed_data_size)
                /\ pc' = "auth_cert_type"
                /\ result' = result
           ELSE /\ data' = data
                /\ offset' = offset
                /\ Abort(r)
    /\ UNCHANGED <<callee, quoteVars, auth_bytes, parsed_data_size, cert_type,
                   cert_data_size, pem_bytes, decoded_cert_data_array, leVars>>

\* let data = &quote_bytes[578..578 + parsed_data_size as usize];
\* let mut offset = (578 + parsed_data_size) as usize;
AuthSliceData ==
    /\ pc = "auth_data"
    /\ steps' = Append(steps, "auth_data")
    /\ \E r \in {SliceN(auth_bytes, QeDataOffset, parsed_data_size)} :
           IF r.ok
           THEN /\ data' = r.val
                /\ offset' = QeDataOffset + BigToInt(parsed_data_size)
                /\ pc' = "auth_cert_type"
                /\ result' = result
           ELSE /\ data' = data
                /\ offset' = offset
                /\ Abort(r)
    /\ UNCHANGED <<callee, quoteVars, auth_bytes, parsed_data_size, cert_type,
                   cert_data_size, pem_bytes, decoded_cert_data_array, leVars>>

\* let cert_type = little_endian_decode(&quote_bytes[offset..offset + 2]);
\* offset += 2;
AuthReadCertType ==
    /\ pc = "auth_cert_type"
    /\ steps' = Append(steps, "auth_cert_type")
    /\ \E r \in {Then(Slice(auth_bytes, offset, offset + 2),
                      LAMBDA w : little_endian_decode(w))} :
           IF r.ok
           THEN /\ cert_type' = r.val
                /\ offset' = offset + 2
                /\ pc' = "auth_cert_size"
                /\ result' = result
           ELSE /\ cert_type' = cert_type
                /\ offset' = offset
                /\ Abort(r)
    /\ UNCHANGED <<callee, quoteVars, auth_bytes, parsed_data_size, data,
                   cert_data_size, pem_bytes, decoded_cert_data_array, leVars>>

\* let cert_data_size = little_endian_decode(&quote_bytes[offset..offset + 4]);
\* offset += 4;
AuthReadCertSize ==
    /\ pc = "auth_cert_size"
    /\ steps' = Append(steps, "auth_cert_size")
    /\ \E r \in {Then(Slice(auth_bytes, offset, offset + 4),
                      LAMBDA w : little_endian_decode(w))} :
           IF r.ok
           THEN /\ cert_data_size' = r.val
                /\ offset' = offset + 4
                /\ pc' = "auth_cert_data"
                /\ result' = result
           ELSE /\ cert_data_size' = cert_data_size
                /\ offset' = offset
                /\ Abort(r)
    /\ UNCHANGED <<callee, quoteVars, auth_bytes, parsed_data_size, data, cert_type,
                   pem_bytes, decoded_cert_data_array, leVars>>

\* AuthSliceCertData with an inclusive range, one byte after the
\* certification data taken with them: &quote_bytes[offset..=offset + size]
AuthSliceCertData_Inclusive ==
    /\ pc = "auth_cert_data"
    /\ steps' = Append(steps, "auth_cert_data")
    /\ \E r \in {SliceN(auth_bytes, offset, BigAdd(cert_data_size, BigOf(1)))} :
           IF r.ok
           THEN /\ pem_bytes' = r
                /\ pc' = "auth_chain"
                /\ result' = result
           ELSE /\ pem_bytes' = pem_bytes
                /\ Abort(r)
    /\ UNCHANGED <<callee, quoteVars, auth_bytes, parsed_data_size, data, offset,
                   cert_type, cert_data_size, decoded_cert_data_array, leVars>>

\* let cert_data = &quote_bytes[offset..offset + cert_data_size as usize];
AuthSliceCertData ==
    /\ pc = "auth_cert_data"
    /\ steps' = Append(steps, "auth_cert_data")
    /\ \E r \in {SliceN(auth_bytes, offset, cert_data_size)} :
           IF r.ok
           THEN /\ pem_bytes' = r
                /\ pc' = "auth_chain"
                /\ result' = result
           ELSE /\ pem_bytes' = pem_bytes
                /\ Abort(r)
    /\ UNCHANGED <<callee, quoteVars, auth_bytes, parsed_data_size, data, offset,
                   cert_type, cert_data_size, decoded_cert_data_array, leVars>>

\* let decoded_cert_data_array = parse_cerification_chain_bytes(cert_data);
AuthParseChain ==
    /\ pc = "auth_chain"
    /\ steps' = Append(steps, "auth_chain")
    /\ \E r \in {parse_cerification_chain_bytes(pem_bytes.val)} :
           IF r.ok
           THEN /\ decoded_cert_data_array' = r.val
                /\ pc' = "auth_fixed"
                /\ result' = result
           ELSE /\ decoded_cert_data_array' = decoded_cert_data_array
                /\ Abort(r)
    /\ UNCHANGED <<callee, quoteVars, auth_bytes, parsed_data_size, data, offset,
                   cert_type, cert_data_size, pem_bytes, leVars>>

\* The fixed sections (lines 178-182) and the value returned (lines 184-203),
\* from the locals of the statements before.
AuthDataOf(b, size, payload, type, certSize, chain) ==
    LET ecdsa_sig == Slice(b, 0, 64)
        ecdsa_attestation_key == Slice(b, 64, 128)
        raw_qe_report == Slice(b, 128, 512)
        pck_signed_qe_report ==
            Then(raw_qe_report, LAMBDA w : parse_quote_enclave_report(w))
        qe_report_signature == Slice(b, 512, QeSizeOffset)
        bad == FirstPanic(<<ecdsa_sig, ecdsa_attestation_key, pck_signed_qe_report,
                            qe_report_signature>>)
    IN  IF ~bad.ok THEN bad
        ELSE Ok([ecdsa256BitSignature |-> ecdsa_sig.val,
                 ecdsaAttestationKey |-> ecdsa_attestation_key.val,
                 pckSignedQeReport |-> pck_signed_qe_report.val,
                 qeReportSignature |-> qe_report_signature.val,
                 qeAuthData |->
                     [parsedDataSize |-> AsU16(size),
                      data |-> payload],
                 certification |->
                     [certType |-> AsU16(type),
                      certDataSize |-> BigToInt(BigTrunc(certSize, 8)),
                      decodedCertDataArray |-> chain]])

\* The fixed sections are sliced, the QE report decoded, and
\* parse_quote_auth_data returns to parse_quote, which unwraps its result into
\* v3_auth_data.
AuthReturn ==
    /\ pc = "auth_fixed"
    /\ steps' = Append(steps, "auth_fixed")
    /\ \E r \in {AuthDataOf(auth_bytes, parsed_data_size, data, cert_type,
                            cert_data_size, decoded_cert_data_array)} :
           IF r.ok
           THEN /\ v3_auth_data' = r
                /\ pc' = "assemble"
                /\ result' = result
           ELSE /\ v3_auth_data' = v3_auth_data
                /\ Abort(r)
    /\ UNCHANGED <<callee, quote_str, quote_bytes, header, local_enclave_report,
                   local_auth_data_size, authVars, leVars>>

\* ParsedV3QuoteStruct { header, localEnclaveReport, v3AuthData }
Assemble ==
    /\ pc = "assemble"
    /\ steps' = Append(steps, "assemble")
    /\ result' = Ok([header |-> header.val,
                     localEnclaveReport |-> local_enclave_report.val,
                     v3AuthData |-> v3_auth_data.val])
    /\ pc' = "done"
    /\ UNCHANGED <<callee, quoteVars, authVars, leVars>>

Next == \/ HexDecode
        \/ ParseHeader
        \/ ParseLocalReport
        \/ ReadAuthDataSize
        \/ CheckLength
        \/ EnterAuthData
        \/ AuthReadSize
        \/ AuthSliceData
        \/ AuthReadCertType
        \/ AuthReadCertSize
        \/ AuthSliceCertData
        \/ AuthParseChain
        \/ AuthReturn
        \/ Assemble

----------------------------------------------------------------------------
(* The quotes parse_quote is called with *)

\* The number of fill patterns of the bytes of a quote
NumSeeds == 2

\* The longest QE authentication data payload of a well-formed quote
MaxData == 2

\* The most PEM blocks of a certificate bundle
MaxBlocks == 4

\* The most bytes that follow the certificate bundle
MaxTrailing == 1

\* The byte at 0-based index z of a quote filled with pattern seed
Fill(z, seed) == (z * 37 + seed * 101 + 11) % 256

\* n as width little-endian bytes
LeBytes(n, width) ==
    [k \in 1..width |->
        (n \div (IF k = 1 THEN 1 ELSE IF k = 2 THEN 256
                 ELSE IF k = 3 THEN 65536 ELSE 16777216)) % 256]

B64Char(v) ==
    IF v < 26 THEN 65 + v
    ELSE IF v < 52 THEN 71 + v
    ELSE IF v < 62 THEN v - 4
    ELSE IF v = 62 THEN 43 ELSE 47

\* The standard base64 text of bytes, padded
Base64Encode(bytes) ==
    LET n == Len(bytes)
        at(k) == IF k <= n THEN bytes[k] ELSE 0
        charAt(j) ==
            LET g == 3 * ((j - 1) \div 4)
                r == (j - 1) % 4
            IN  IF r = 0 THEN B64Char(at(g + 1) \div 4)
                ELSE IF r = 1 THEN B64Char((at(g + 1) % 4) * 16 + at(g + 2) \div 16)
                ELSE IF r = 2
                     THEN (IF g + 2 > n THEN B64Pad
                           ELSE B64Char((at(g + 2) % 16) * 4 + at(g + 3) \div 64))
                ELSE (IF g + 3 > n THEN B64Pad ELSE B64Char(at(g + 3) % 64))
    IN  [j \in 1..(4 * ((n + 2) \div 3)) |-> charAt(j)]

\* "CERTIFICATE" and "CERT"
CertTag == <<67, 69, 82, 84, 73, 70, 73, 67, 65, 84, 69>>

ShortTag == <<67, 69, 82, 84>>

\* The contents of the k-th certificate of a bundle: one to three bytes
CertContents(k, seed) ==
    [j \in 1..(1 + ((k + seed) % 3)) |-> (k * 53 + j * 29 + seed * 7) % 256]

\* One PEM block.  flaw: "tags" ends it with another tag, "base64" puts a
\* character outside the alphabet in its data, "noend" leaves out its END
\* line, "crlf" ends its lines with \r\n; "junk" puts text before it.
PemBlock(contents, flaw) ==
    LET nl == IF flaw = "crlf" THEN <<13, 10>> ELSE <<10>>
        text64 == IF flaw = "base64" THEN <<42>> \o Base64Encode(contents)
                  ELSE Base64Encode(contents)
        endTag == IF flaw = "tags" THEN ShortTag ELSE CertTag
    IN  (IF flaw = "junk" THEN <<106, 117, 110, 107, 10>> ELSE <<>>)
        \o BeginMarker \o CertTag \o Dashes \o nl \o text64 \o nl
        \o (IF flaw = "noend" THEN <<>> ELSE EndMarker \o endTag \o Dashes \o nl)

\* A bundle of n blocks; the flaw is in its last block ("junk", "crlf": in
\* every block).
RECURSIVE BundleFrom(_, _, _, _)
BundleFrom(k, n, seed, flaw) ==
    IF k > n THEN <<>>
    ELSE PemBlock(CertContents(k, seed),
                  IF k = n \/ flaw \in {"junk", "crlf"} THEN flaw ELSE "none")
         \o BundleFrom(k + 1, n, seed, flaw)

Bundle(n, seed, flaw) == BundleFrom(1, n, seed, flaw)

\* The fixed length of the authentication data: all of it but the QE
\* authentication data payload and the certificate bundle
AuthFixedLen == 584

\* The bytes of a quote: the header and the local report filled, the size
\* field d.authSize, the authentication data with the sizes d.pSize and
\* d.cSize in front of a payload of d.p bytes and of the bundle, d.trailing
\* bytes after it; only the first d.cut bytes of it all.
QuoteBytes(d) ==
    LET c == Len(d.bundle)
        total == AuthOffset + AuthFixedLen + d.p + c + d.trailing
        pAt == AuthOffset + QeSizeOffset
        tAt == AuthOffset + QeDataOffset + d.p
        raw == [k \in 1..total |->
                   LET z == k - 1
                   IN  IF z >= SizeOffset /\ z < AuthOffset THEN d.authSize[z - SizeOffset + 1]
                       ELSE IF z >= pAt /\ z < pAt + 2 THEN d.pSize[z - pAt + 1]
                       ELSE IF z >= tAt /\ z < tAt + 2 THEN <<5, 0>>[z - tAt + 1]
                       ELSE IF z >= tAt + 2 /\ z < tAt + 6 THEN d.cSize[z - tAt - 1]
                       ELSE IF z >= tAt + 6 /\ z < tAt + 6 + c THEN d.bundle[z - tAt - 5]
                       ELSE Fill(z, d.seed)]
    IN  SubSeq(raw, 1, Min(total, d.cut))

\* A quote whose three size fields state its layout
Consistent(seed, p, n, flaw, trailing) ==
    LET bundle == Bundle(n, seed, flaw)
    IN  [seed |-> seed, p |-> p, bundle |-> bundle, trailing |-> trailing,
         authSize |-> LeBytes(AuthFixedLen + p + Len(bundle) + trailing, 4),
         pSize |-> LeBytes(p, 2),
         cSize |-> LeBytes(Len(bundle), 4),
         cut |-> AuthOffset + AuthFixedLen + p + Len(bundle) + trailing]

Seeds == 0..(NumSeeds - 1)

WellFormedQuotes ==
    {Consistent(s, p, n, "none", t) :
        s \in Seeds, p \in 0..MaxData, n \in 0..MaxBlocks, t \in 0..MaxTrailing}

FlawedBundleQuotes ==
    {Consistent(s, 1, n, f, 0) :
        s \in Seeds, n \in {2, 3, 4}, f \in {"tags", "base64", "noend", "crlf", "junk"}}

\* Quotes with one of the three size fields changed
CorruptedQuotes ==
    UNION {LET d == Consistent(0, p, 3, "none", t)
               a == AuthFixedLen + p + Len(d.bundle) + t
               c == Len(d.bundle)
           IN  {[d EXCEPT !.authSize = x] :
                    x \in {LeBytes(a + 1, 4), LeBytes(a - 1, 4), <<0, 0, 0, 0>>,
                           [d.authSize EXCEPT ![4] = 255]}}
               \cup {[d EXCEPT !.pSize = x] :
                    x \in {LeBytes(p + 1, 2), <<255, 255>>, <<0, 0>>}}
               \cup {[d EXCEPT !.cSize = x] :
                    x \in {LeBytes(c + 1, 4), LeBytes(c - 1, 4), LeBytes(c + 256, 4),
                           <<255, 255, 255, 255>>, <<0, 0, 0, 0>>,
                           [d.cSize EXCEPT ![4] = 128]}}
           : p \in {0, 1}, t \in 0..MaxTrailing}

\* The lengths quotes are cut to
CutLens ==
    {0, 2, 47, 48, 49, 100, 400, 431, 432, 435, 436, 437, 500, 1000, 1011, 1012,
     1013, 1014, 1015, 1019, 1020, 1021, 1022, 1100}

\* Quotes cut short, the size field left as it was or stating the cut length
TruncatedQuotes ==
    UNION {LET d == Consistent(0, 1, 3, "none", 0)
           IN  {[d EXCEPT !.cut = n]}
               \cup (IF n >= AuthOffset
                     THEN {[d EXCEPT !.cut = n, !.authSize = LeBytes(n - AuthOffset, 4)]}
                     ELSE {})
           : n \in CutLens}

Quotes == WellFormedQuotes \cup FlawedBundleQuotes \cup CorruptedQuotes \cup TruncatedQuotes

HexChar(v, upper) == IF v < 10 THEN 48 + v ELSE IF upper THEN 55 + v ELSE 87 + v

\* The hex string of bytes, in lower or upper case
HexEncode(bytes, upper) ==
    [k \in 1..(2 * Len(bytes)) |->
        IF k % 2 = 1 THEN HexChar(bytes[(k + 1) \div 2] \div 16, upper)
        ELSE HexChar(bytes[k \div 2] % 16, upper)]

\* Well-formed quotes with every byte after the bundle changed, and nothing
\* else: each is as long as the quote it is made of
RetailedQuotes ==
    {LET d == Consistent(s, 1, 3, "none", t)
         b == QuoteBytes(d)
     IN  [k \in 1..Len(b) |-> IF k > Len(b) - t THEN (b[k] + 1) % 256 ELSE b[k]]
     : s \in Seeds, t \in 1..MaxTrailing}

\* The strings parse_quote is called with: every quote in lower case, and a
\* well-formed one in upper case, with its last character missing and with a
\* character that is no hex digit.
QuoteStrings ==
    {HexEncode(QuoteBytes(d), FALSE) : d \in Quotes}
    \cup {HexEncode(b, FALSE) : b \in RetailedQuotes}
    \cup UNION {LET b == QuoteBytes(Consistent(s, 1, 3, "none", 0))
                    lower == HexEncode(b, FALSE)
                IN  {HexEncode(b, TRUE),
                     SubSeq(lower, 1, Len(lower) - 1),
                     [lower EXCEPT ![6] = 103]}
                : s \in Seeds}

Init ==
    /\ pc = "hex"
    /\ callee = "parse_quote"
    /\ quote_str \in QuoteStrings
    /\ result = Unset
    /\ steps = <<>>
    /\ QuoteUnset
    /\ AuthUnset
    /\ LeUnset

Spec == Init /\ [][Next]_vars

----------------------------------------------------------------------------
(* Direct calls of the decoders on slices of any length *)

\* The most bytes a slice has beyond the length its decoder needs
MaxExtra == 2

\* The lengths of the slices: around every offset the decoders slice at
DirectLens ==
    {0, 1, 2, 4, 8, 10, 12, 16, 20, 28, 64, 96, 128, 160, 256, 258, 260, 320}
    \cup ((HeaderLen - 2)..(HeaderLen + MaxExtra))
    \cup ((ReportLen - 2)..(ReportLen + MaxExtra))

DirectSlices == {[k \in 1..n |-> Fill(k - 1, s)] : n \in DirectLens, s \in Seeds}

Flaws == {"none", "tags", "base64", "noend", "crlf", "junk"}

DirectBundles == {Bundle(n, s, f) : n \in 0..MaxBlocks, s \in Seeds, f \in Flaws}

InitDirect ==
    /\ pc = "call"
    /\ \/ /\ callee \in {"parse_quote_header", "parse_quote_enclave_report"}
          /\ quote_bytes \in DirectSlices
       \/ /\ callee = "parse_cerification_chain_bytes"
          /\ quote_bytes \in DirectBundles
    /\ quote_str = <<>>
    /\ header = Unset
    /\ local_enclave_report = Unset
    /\ local_auth_data_size = <<>>
    /\ v3_auth_data = Unset
    /\ result = Unset
    /\ steps = <<>>
    /\ AuthUnset
    /\ LeUnset

\* parse_quote_header(quote_bytes)
CallHeader ==
    /\ pc = "call"
    /\ callee = "parse_quote_header"
    /\ result' = parse_quote_header(quote_bytes)
    /\ pc' = "done"
    /\ UNCHANGED <<callee, steps, quoteVars, authVars, leVars>>

\* parse_quote_enclave_report(quote_bytes)
CallReport ==
    /\ pc = "call"
    /\ callee = "parse_quote_enclave_report"
    /\ result' = parse_quote_enclave_report(quote_bytes)
    /\ pc' = "done"
    /\ UNCHANGED <<callee, steps, quoteVars, authVars, leVars>>

\* parse_cerification_chain_bytes(quote_bytes)
CallChain ==
    /\ pc = "call"
    /\ callee = "parse_cerification_chain_bytes"
    /\ result' = parse_cerification_chain_bytes(quote_bytes)
    /\ pc' = "done"
    /\ UNCHANGED <<callee, steps, quoteVars, authVars, leVars>>

NextDirect == CallHeader \/ CallReport \/ CallChain

SpecDirect == InitDirect /\ [][NextDirect]_vars

----------------------------------------------------------------------------
(* The vocabulary of the properties *)

\* The kind of failure, in the words of the error taxonomy, of the assert!,
\* slice or unwrap that ended a call.
ErrorKind(r) ==
    IF r.ok THEN "none"
    ELSE IF r.err = "unwrap:hex::decode" THEN "InvalidHex"
    ELSE IF r.err \in {"slice", "assert:quote_bytes.len() > 48"} THEN "TruncatedInput"
    ELSE IF r.err = "assert_eq:quote length mismatch" THEN "LengthMismatch"
    ELSE IF r.err \in {"unwrap:parse_many", "assert_eq:pems.len() == 3"}
         THEN "CertificateChainError"
    ELSE IF r.err = "assert:encoded.len() <= 8" THEN "InputTooLong"
    ELSE "other"

\* Whether statement s has been entered
Ran(s) == \E k \in 1..Len(steps) : steps[k] = s

\* Whether statement s has run to its end without failing
Passed(s) ==
    \E k \in 1..Len(steps) :
        steps[k] = s /\ (k < Len(steps) \/ pc # "done" \/ result.ok)

\* The statements of parse_quote and, inlined, of parse_quote_auth_data
StepOrder ==
    <<"hex", "header", "report", "size", "check", "auth", "auth_size", "auth_data",
      "auth_cert_type", "auth_cert_size", "auth_cert_data", "auth_chain", "auth_fixed",
      "assemble">>

\* The little-endian number in the n bytes of a from 0-based offset lo, a u64
FieldAt(a, lo, n) == LittleEndianValue(SubSeq(a, lo + 1, lo + n))

\* parsedDataSize as the authentication data a states it (a has 578 bytes)
StatedP(a) == BigToInt(FieldAt(a, QeSizeOffset, 2))

\* certDataSize as a states it (a has 584 + StatedP(a) bytes), a u64
StatedC(a) == FieldAt(a, QeDataOffset + StatedP(a) + 2, 4)

\* Whether a length-driven slice of a would pass its end
Overruns(a) ==
    \/ Len(a) < QeDataOffset
    \/ QeDataOffset + StatedP(a) + 6 > Len(a)
    \/ BigGt(BigAdd(BigOf(AuthFixedLen + StatedP(a)), StatedC(a)), Len(a))

\* The bundle a states: its certDataSize bytes after the sizes
StatedBundle(a) ==
    SubSeq(a, AuthFixedLen + StatedP(a) + 1,
           AuthFixedLen + StatedP(a) + BigToInt(StatedC(a)))

\* The bundles built of n blocks: what they are built of
BundleKinds == [n : 0..MaxBlocks, seed : Seeds, flaw : Flaws]

KindsOf(b) == {k \in BundleKinds : Bundle(k.n, k.seed, k.flaw) = b}

\* The blocks of a bundle of kind k that are whole
WholeBlocks(k) == IF k.flaw = "noend" /\ k.n > 0 THEN k.n - 1 ELSE k.n

\* Whether a block of a bundle of kind k is malformed
Malformed(k) == k.flaw \in {"tags", "base64"} /\ k.n > 0

\* The contents of the three certificates of a bundle filled with pattern seed
ThreeCerts(seed) == <<CertContents(1, seed), CertContents(2, seed), CertContents(3, seed)>>

HexDigits == (48..57) \cup (65..70) \cup (97..102)

ValidHex(s) == Len(s) % 2 = 0 /\ \A k \in 1..Len(s) : s[k] \in HexDigits

----------------------------------------------------------------------------
(* C1 *)

\* The size field of a quote of at least 436 bytes disagrees with its length
SizeDisagrees(q) ==
    /\ Len(q) >= AuthOffset
    /\ FieldAt(q, SizeOffset, 4) # BigOf(Len(q) - AuthOffset)

\* C1: for every input of at least 436 bytes whose little-endian u32 at
\* [432,436) differs from the length less 436, parse_quote fails with
\* LengthMismatch and returns no ParsedQuote, and parse_quote_auth_data is never
\* entered.
C1_LengthMismatch ==
    (callee = "parse_quote" /\ SizeDisagrees(quote_bytes)) =>
        /\ ~Ran("auth")
        /\ auth_bytes = <<>>
        /\ ~v3_auth_data.ok
        /\ pc = "done" => (~result.ok /\ ErrorKind(result) = "LengthMismatch")

\* C1 witness: a call has ended on a quote whose size field is one more than
\* its authentication data is long.
C1_Witness ==
    /\ pc = "done"
    /\ Len(quote_bytes) >= AuthOffset
    /\ FieldAt(quote_bytes, SizeOffset, 4) = BigOf(Len(quote_bytes) - AuthOffset + 1)
    /\ ErrorKind(result) = "LengthMismatch"

----------------------------------------------------------------------------
(* C3 *)

\* A quote that is well formed: its size field states its length, its
\* authentication data holds what its two sizes state, and its bundle is three
\* well-formed PEM blocks.
WellFormed(q) ==
    /\ Len(q) >= AuthOffset
    /\ FieldAt(q, SizeOffset, 4) = BigOf(Len(q) - AuthOffset)
    /\ ~Overruns(SubSeq(q, AuthOffset + 1, Len(q)))
    /\ \E k \in KindsOf(StatedBundle(SubSeq(q, AuthOffset + 1, Len(q)))) :
           k.n = ChainLen /\ k.flaw \in {"none", "crlf", "junk"}

\* C3: a well-formed quote given as valid hex decodes: parse_quote returns a
\* ParsedQuote whose header fields are the input bytes at [0,2) [2,4) [4,8)
\* [8,10) [10,12) [12,28) [28,48), and whose certificates are three.
C3_WellFormedDecodes ==
    (callee = "parse_quote" /\ pc = "done" /\ ValidHex(quote_str)) =>
        /\ quote_str \in {HexEncode(quote_bytes, FALSE), HexEncode(quote_bytes, TRUE)}
        /\ WellFormed(quote_bytes) =>
              /\ result.ok
              /\ result.val.header =
                     [version |-> SubSeq(quote_bytes, 1, 2),
                      attestationKeyType |-> SubSeq(quote_bytes, 3, 4),
                      teeType |-> SubSeq(quote_bytes, 5, 8),
                      qeSvn |-> SubSeq(quote_bytes, 9, 10),
                      pceSvn |-> SubSeq(quote_bytes, 11, 12),
                      qeVendorId |-> SubSeq(quote_bytes, 13, 28),
                      userData |-> SubSeq(quote_bytes, 29, 48)]
              /\ Len(result.val.v3AuthData.certification.decodedCertDataArray) = 3

\* C3 witness: a well-formed quote has been decoded, with trailing bytes after
\* its bundle.
C3_Witness ==
    /\ pc = "done"
    /\ ValidHex(quote_str)
    /\ WellFormed(quote_bytes)
    /\ result.ok
    /\ result.val.header.version = SubSeq(quote_bytes, 1, 2)
    /\ Len(auth_bytes) > AuthFixedLen + StatedP(auth_bytes) + BigToInt(StatedC(auth_bytes))

----------------------------------------------------------------------------
(* C4 *)

\* C4: the PEM bundle decoder returns the three certificates' contents in
\* bundle order when the bundle parses into exactly 3 blocks, and fails with
\* CertificateChainError when a block is malformed or the blocks are not 3; so
\* every ParsedQuote parse_quote returns holds exactly 3 certificates.
C4_CertificateChain ==
    /\ (callee = "parse_quote" /\ Ran("auth_chain")) =>
           \A k \in KindsOf(pem_bytes.val) :
               IF Malformed(k) \/ WholeBlocks(k) # ChainLen
               THEN /\ pc = "done"
                    /\ ~result.ok
                    /\ ErrorKind(result) = "CertificateChainError"
                    /\ decoded_cert_data_array = <<>>
               ELSE /\ Passed("auth_chain")
                    /\ decoded_cert_data_array = ThreeCerts(k.seed)
    /\ (callee = "parse_quote" /\ pc = "done" /\ result.ok) =>
           /\ Len(result.val.v3AuthData.certification.decodedCertDataArray) = ChainLen
           /\ result.val.v3AuthData.certification.decodedCertDataArray =
                  decoded_cert_data_array

\* C4 witness: a bundle of four well-formed blocks has been refused.
C4_Witness ==
    /\ pc = "done"
    /\ Ran("auth_chain")
    /\ \E k \in KindsOf(pem_bytes.val) : k.n = 4 /\ k.flaw = "none"
    /\ ErrorKind(result) = "CertificateChainError"

----------------------------------------------------------------------------
(* C5 *)

\* C5: when a length-driven slice of the authentication data would pass the
\* end of the buffer, the decoding fails with TruncatedInput: no
\* AuthenticationData is returned, and no slice is shortened or padded (the
\* QE authentication payload and the certification data, where they were
\* taken, have the lengths the buffer states).
C5_SliceOverrun ==
    (callee = "parse_quote" /\ Ran("auth")) =>
        /\ Passed("auth_data") => Len(data) = StatedP(auth_bytes)
        /\ pem_bytes.ok => BigOf(Len(pem_bytes.val)) = StatedC(auth_bytes)
        /\ Overruns(auth_bytes) =>
              /\ ~v3_auth_data.ok
              /\ ~pem_bytes.ok
              /\ ~Ran("auth_chain")
              /\ pc = "done" => (~result.ok /\ ErrorKind(result) = "TruncatedInput")

\* C5 witness: the certification data size stated one byte more than the
\* buffer holds, and the decoding has ended.
C5_Witness ==
    /\ pc = "done"
    /\ Ran("auth_cert_data")
    /\ Overruns(auth_bytes)
    /\ BigAdd(BigOf(AuthFixedLen + StatedP(auth_bytes)), StatedC(auth_bytes))
           = BigOf(Len(auth_bytes) + 1)
    /\ ErrorKind(result) = "TruncatedInput"

----------------------------------------------------------------------------
(* C6 *)

\* C6: a decoding is all or nothing: the statements run in their one order,
\* none twice; the first failure ends the call with that one failure and no
\* later statement runs; and only a call whose every statement has run returns
\* a ParsedQuote, made of the three parts decoded.
C6_AllOrNothing ==
    callee = "parse_quote" =>
        /\ Len(steps) <= Len(StepOrder)
        /\ steps = SubSeq(StepOrder, 1, Len(steps))
        /\ header.ok <=> Passed("header")
        /\ local_enclave_report.ok <=> Passed("report")
        /\ pem_bytes.ok <=> Passed("auth_cert_data")
        /\ decoded_cert_data_array # <<>> <=> Passed("auth_chain")
        /\ v3_auth_data.ok <=> Passed("auth_fixed")
        /\ pc # "done" => (result = Unset /\ pc = StepOrder[Len(steps) + 1])
        /\ pc = "done" =>
              \/ /\ result.ok
                 /\ steps = StepOrder
                 /\ header.ok /\ local_enclave_report.ok /\ v3_auth_data.ok
                 /\ result.val = [header |-> header.val,
                                  localEnclaveReport |-> local_enclave_report.val,
                                  v3AuthData |-> v3_auth_data.val]
              \/ /\ ~result.ok
                 /\ ErrorKind(result) \in {"InvalidHex", "TruncatedInput", "LengthMismatch",
                                           "CertificateChainError"}
                 /\ Len(steps) < Len(StepOrder)
                 /\ ~v3_auth_data.ok

\* C6 witness: a call has failed in the middle, at the bundle, after the
\* header and the report were decoded.
C6_Witness ==
    /\ pc = "done"
    /\ ~result.ok
    /\ header.ok /\ local_enclave_report.ok
    /\ steps = SubSeq(StepOrder, 1, 12)
    /\ ~v3_auth_data.ok

----------------------------------------------------------------------------
(* C7 *)

\* C7: for every valid-hex input of fewer than 436 decoded bytes parse_quote
\* fails with TruncatedInput, and it fails by returning: it does not panic, it
\* reports no LengthMismatch and it returns no partial result.
C7_ShortInputReturnsError ==
    (callee = "parse_quote" /\ pc = "done" /\ ValidHex(quote_str)
        /\ Len(quote_bytes) < AuthOffset) =>
        /\ ~result.ok
        /\ ErrorKind(result) = "TruncatedInput"
        /\ ~v3_auth_data.ok
        /\ ~result.panic

\* What of C7 the code does: the call ends at a slice or at the header's
\* assert!, before the length is compared and with no ParsedQuote.
C7_ShortInputAborts ==
    (callee = "parse_quote" /\ pc = "done" /\ ValidHex(quote_str)
        /\ Len(quote_bytes) < AuthOffset) =>
        /\ ~result.ok
        /\ ErrorKind(result) = "TruncatedInput"
        /\ ~Ran("check")
        /\ result.panic

----------------------------------------------------------------------------
(* C8 *)

\* The seven fields of the header of b
HeaderFields(b) ==
    [version |-> SubSeq(b, 1, 2),
     attestationKeyType |-> SubSeq(b, 3, 4),
     teeType |-> SubSeq(b, 5, 8),
     qeSvn |-> SubSeq(b, 9, 10),
     pceSvn |-> SubSeq(b, 11, 12),
     qeVendorId |-> SubSeq(b, 13, 28),
     userData |-> SubSeq(b, 29, 48)]

\* C8: the header decoder succeeds on every slice of at least 48 bytes, one of
\* exactly 48 bytes included, with a QuoteHeader of the bytes at the seven
\* offsets (of bytes [0,48) only), and fails with TruncatedInput on every slice
\* of fewer than 48 bytes.
C8_HeaderBoundary ==
    (callee = "parse_quote_header" /\ pc = "done") =>
        IF Len(quote_bytes) >= 48
        THEN result = Ok(HeaderFields(quote_bytes))
        ELSE ~result.ok /\ ErrorKind(result) = "TruncatedInput"

\* What the code does at the boundary: the header is decoded of more than 48
\* bytes, and 48 bytes and fewer are refused.
C8_HeaderAsCoded ==
    (callee = "parse_quote_header" /\ pc = "done") =>
        IF Len(quote_bytes) > 48
        THEN result = Ok(HeaderFields(quote_bytes))
        ELSE ~result.ok /\ ErrorKind(result) = "TruncatedInput"

----------------------------------------------------------------------------
(* C9 *)

\* The fields of the enclave report that are bytes of b as they are
ReportBytes(b) ==
    [cpuSvn |-> SubSeq(b, 1, 16),
     miscSelect |-> SubSeq(b, 17, 20),
     reserved1 |-> SubSeq(b, 21, 48),
     attributes |-> SubSeq(b, 49, 64),
     mrEnclave |-> SubSeq(b, 65, 96),
     reserved2 |-> SubSeq(b, 97, 128),
     mrSigner |-> SubSeq(b, 129, 160),
     reserved3 |-> SubSeq(b, 161, 256),
     reserved4 |-> SubSeq(b, 261, 320),
     reportData |-> SubSeq(b, 321, 384)]

\* Whether report r is the report of the bytes b
ReportOf(r, b) ==
    /\ \A f \in DOMAIN ReportBytes(b) : r[f] = ReportBytes(b)[f]
    /\ r.isvProdId = b[257] + 256 * b[258]
    /\ r.isvSvn = b[259] + 256 * b[260]

\* C9: the enclave-report decoder returns an EnclaveReport of an input of
\* exactly 384 bytes only, and fails with TruncatedInput on an input of any
\* other length, shorter or longer.
C9_ExactlyReportLen ==
    (callee = "parse_quote_enclave_report" /\ pc = "done") =>
        IF Len(quote_bytes) = 384
        THEN result.ok /\ ReportOf(result.val, quote_bytes)
        ELSE ~result.ok /\ ErrorKind(result) = "TruncatedInput"

\* What the code does: it checks no length, and returns the EnclaveReport of
\* the first 384 bytes of every input of at least 384 bytes; it fails on every
\* input of fewer than 384 bytes.
C9_ReportAsCoded ==
    (callee = "parse_quote_enclave_report" /\ pc = "done") =>
        IF Len(quote_bytes) >= 384
        THEN /\ result.ok
             /\ ReportOf(result.val, quote_bytes)
             /\ result = parse_quote_enclave_report(SubSeq(quote_bytes, 1, 384))
        ELSE ~result.ok /\ ErrorKind(result) = "TruncatedInput"

\* A report has been decoded of 385 bytes.
C9_LongerDecoded ==
    /\ callee = "parse_quote_enclave_report"
    /\ pc = "done"
    /\ Len(quote_bytes) = 385
    /\ result.ok
    /\ result.val.reportData = SubSeq(quote_bytes, 321, 384)

----------------------------------------------------------------------------
(* C10 *)

\* C10: in every authentication data decoded of a buffer a, with P the
\* little-endian u16 at [576,578): parsedDataSize is P and the QE
\* authentication payload is a[578, 578+P); certType is the u16 at
\* [578+P, 580+P); certDataSize is the u32 at [580+P, 584+P) and the
\* certification data are the certDataSize bytes from 584+P; the signature,
\* the attestation key, the QE report and its signature are of [0,64),
\* [64,128), [128,512) and [512,576).
C10_AuthDataLayout ==
    (callee = "parse_quote" /\ v3_auth_data.ok) =>
        /\ Len(auth_bytes) >= AuthFixedLen + StatedP(auth_bytes)
        /\ BigOf(Len(pem_bytes.val)) = StatedC(auth_bytes)
        /\ v3_auth_data.val.qeAuthData.parsedDataSize = StatedP(auth_bytes)
        /\ v3_auth_data.val.qeAuthData.data = data
        /\ data = SubSeq(auth_bytes, 579, 578 + StatedP(auth_bytes))
        /\ Len(data) = StatedP(auth_bytes)
        /\ v3_auth_data.val.certification.certType =
               BigToInt(FieldAt(auth_bytes, 578 + StatedP(auth_bytes), 2))
        /\ BigOf(v3_auth_data.val.certification.certDataSize) = StatedC(auth_bytes)
        /\ pem_bytes.val = SubSeq(auth_bytes, 585 + StatedP(auth_bytes),
                                  584 + StatedP(auth_bytes) + Len(pem_bytes.val))
        /\ v3_auth_data.val.ecdsa256BitSignature = SubSeq(auth_bytes, 1, 64)
        /\ v3_auth_data.val.ecdsaAttestationKey = SubSeq(auth_bytes, 65, 128)
        /\ ReportOf(v3_auth_data.val.pckSignedQeReport, SubSeq(auth_bytes, 129, 512))
        /\ v3_auth_data.val.qeReportSignature = SubSeq(auth_bytes, 513, 576)

\* C10 witness: an authentication data has been decoded whose payload is of
\* two bytes, with a byte after the certification data.
C10_Witness ==
    /\ v3_auth_data.ok
    /\ StatedP(auth_bytes) = 2
    /\ Len(v3_auth_data.val.qeAuthData.data) = 2
    /\ Len(auth_bytes) = AuthFixedLen + 2 + Len(pem_bytes.val) + 1
    /\ v3_auth_data.val.certification.certDataSize = Len(pem_bytes.val)

----------------------------------------------------------------------------
(* C11 *)

\* The report of a 384-byte window w: ten fields are bytes of w as they are,
\* isvProdId and isvSvn are the numbers of two bytes each.
R(w) ==
    [cpuSvn |-> SubSeq(w, 1, 16),
     miscSelect |-> SubSeq(w, 17, 20),
     reserved1 |-> SubSeq(w, 21, 48),
     attributes |-> SubSeq(w, 49, 64),
     mrEnclave |-> SubSeq(w, 65, 96),
     reserved2 |-> SubSeq(w, 97, 128),
     mrSigner |-> SubSeq(w, 129, 160),
     reserved3 |-> SubSeq(w, 161, 256),
     isvProdId |-> w[257] + 256 * w[258],
     isvSvn |-> w[259] + 256 * w[260],
     reserved4 |-> SubSeq(w, 261, 320),
     reportData |-> SubSeq(w, 321, 384)]

\* C11: in every ParsedQuote returned for quote bytes q, localEnclaveReport is
\* R(q[48,432)) and the QE report of the authentication data is R(q[564,948)),
\* for the one function R of a 384-byte window that copies every field from its
\* range but isvProdId = w[256] + 256*w[257] and isvSvn = w[258] + 256*w[259],
\* the only fields decoded as integers, which fit in 16 bits.
C11_SameReportFunction ==
    (callee = "parse_quote" /\ pc = "done" /\ result.ok) =>
        /\ Len(quote_bytes) >= 948
        /\ result.val.localEnclaveReport = R(SubSeq(quote_bytes, 49, 432))
        /\ result.val.v3AuthData.pckSignedQeReport = R(SubSeq(quote_bytes, 565, 948))
        /\ \A rep \in {result.val.localEnclaveReport,
                       result.val.v3AuthData.pckSignedQeReport} :
               /\ rep.isvProdId \in 0..65535
               /\ rep.isvSvn \in 0..65535

\* C11 witness: a ParsedQuote has been returned whose two reports differ and
\* whose isvProdId and isvSvn both have a second byte that is not zero.
C11_Witness ==
    /\ callee = "parse_quote"
    /\ pc = "done"
    /\ result.ok
    /\ result.val.localEnclaveReport # result.val.v3AuthData.pckSignedQeReport
    /\ quote_bytes[48 + 258] # 0
    /\ quote_bytes[48 + 260] # 0
    /\ result.val.localEnclaveReport.isvProdId > 255
    /\ result.val.localEnclaveReport.isvSvn > 255

----------------------------------------------------------------------------
(* C12 *)

\* The bytes of quote q up to the end of the bundle its sizes state
ReadPart(q) ==
    SubSeq(q, 1, AuthOffset + AuthFixedLen
                 + StatedP(SubSeq(q, AuthOffset + 1, Len(q)))
                 + BigToInt(StatedC(SubSeq(q, AuthOffset + 1, Len(q)))))

\* The kinds of the bundles that b is: whole, less the last byte of its last
\* line, or with one byte after it
NearKindsOf(b) ==
    {k \in BundleKinds :
        /\ Len(Bundle(k.n, k.seed, k.flaw)) - Len(b) \in {-1, 0, 1}
        /\ SubSeq(Bundle(k.n, k.seed, k.flaw), 1,
                  Min(Len(b), Len(Bundle(k.n, k.seed, k.flaw))))
           = SubSeq(b, 1, Min(Len(b), Len(Bundle(k.n, k.seed, k.flaw))))}

\* The ParsedQuote of x, a quote that ends with its bundle: every field from
\* its range of x, the certificates of the blocks the bundle was built of
Decoded(x) ==
    [header |-> HeaderFields(x),
     localEnclaveReport |-> R(SubSeq(x, 49, 432)),
     v3AuthData |->
         [ecdsa256BitSignature |-> SubSeq(x, 437, 500),
          ecdsaAttestationKey |-> SubSeq(x, 501, 564),
          pckSignedQeReport |-> R(SubSeq(x, 565, 948)),
          qeReportSignature |-> SubSeq(x, 949, 1012),
          qeAuthData |->
              [parsedDataSize |-> x[1013] + 256 * x[1014],
               data |-> SubSeq(x, 1015, 1014 + x[1013] + 256 * x[1014])],
          certification |->
              [certType |-> x[1015 + x[1013] + 256 * x[1014]]
                            + 256 * x[1016 + x[1013] + 256 * x[1014]],
               certDataSize |-> Len(x) - (1020 + x[1013] + 256 * x[1014]),
               decodedCertDataArray |->
                   ThreeCerts((CHOOSE k \in NearKindsOf(
                       SubSeq(x, 1021 + x[1013] + 256 * x[1014], Len(x))) : TRUE).seed)]]]

\* C12: in every successful decode the size field is the length less 436 and
\* 584 + parsedDataSize + certDataSize is at most it; the bundle need not end
\* where the authentication data ends, and nothing after it is read: the
\* certification data end with the bundle, and the ParsedQuote is that of the
\* bytes before, so that quotes of one length that differ only after the
\* bundle decode to equal values.
C12_TrailingBytesUnread ==
    (callee = "parse_quote" /\ pc = "done" /\ result.ok) =>
        /\ FieldAt(quote_bytes, SizeOffset, 4) = BigOf(Len(quote_bytes) - AuthOffset)
        /\ local_auth_data_size = BigOf(Len(quote_bytes) - AuthOffset)
        /\ ~Overruns(auth_bytes)
        /\ 584 + StatedP(auth_bytes) + BigToInt(StatedC(auth_bytes))
               <= Len(quote_bytes) - 436
        /\ pem_bytes.val = StatedBundle(auth_bytes)
        /\ NearKindsOf(StatedBundle(auth_bytes)) # {}
        /\ result.val = Decoded(ReadPart(quote_bytes))

\* C12 witness: a quote has been decoded that has bytes after its bundle, and
\* they are not those of the well-formed quote of its first bytes.
C12_Witness ==
    /\ callee = "parse_quote"
    /\ pc = "done"
    /\ result.ok
    /\ Len(quote_bytes) > Len(ReadPart(quote_bytes))
    /\ result.val = Decoded(ReadPart(quote_bytes))
    /\ \E s \in Seeds :
           /\ quote_bytes[1] = Fill(0, s)
           /\ quote_bytes[Len(quote_bytes)] # Fill(Len(quote_bytes) - 1, s)

====
